---- MODULE Spec2Model ----
(***************************************************************************)
(* Disclosure lifecycle of the patent-disclosure backend                   *)
(* (backend/app/routers/disclosures.py, database.py, services/storage.py). *)
(*                                                                         *)
(* Every request is a process whose steps are the statements it sends to   *)
(* the relational store or the blob store; statements of different         *)
(* requests interleave freely.  Statements outside a transaction commit on *)
(* their own; statements inside conn.transaction() stay in the request's   *)
(* private buffer tx[p] until the transaction block is left.               *)
(***************************************************************************)
EXTENDS Integers, Sequences, FiniteSets, TLC

\* ---------------------------------------------------------------- bounds
MaxCounter == 10010     \* counter values 1..MaxCounter handed to the formatter
MaxTime == 2            \* clock readings 0..MaxTime
NumReqs == 2            \* request slots; slot p is the p-th request to arrive

Reqs == 1..NumReqs
\* the id of the row INSERT INTO disclosures creates for request p is p; the
\* disclosure a store may already hold when the first request arrives has
\* the id SeedId
SeedId == NumReqs + 1
Ids == Reqs \cup {SeedId}

\* ------------------------------------------------------------- constants
None == "None"          \* Python None / SQL NULL for text-valued fields
NoKey == <<>>           \* SQL NULL in disclosures.pdf_object_key
NoId == 0               \* a UUID no disclosure row ever had
MinTextLen == 50
DocketWidth == 4

\* the tuple of valid values with one more value in it
ValidStatuses_open == {"pending", "reviewed", "approved", "rejected", "bogus"}

\* ("pending", "reviewed", "approved", "rejected")
ValidStatuses == {"pending", "reviewed", "approved", "rejected"}
DefaultStatus == "pending"

\* ------------------------------------------------------- pure operators
DigitChars == <<"0", "1", "2", "3", "4", "5", "6", "7", "8", "9">>

RECURSIVE Decimal(_)
Decimal(n) == IF n < 10 THEN DigitChars[n + 1]
              ELSE Decimal(n \div 10) \o DigitChars[(n % 10) + 1]

RECURSIVE ZeroPad(_, _)
ZeroPad(s, width) == IF Len(s) >= width THEN s ELSE ZeroPad("0" \o s, width)

\* f"IDF-{result:04d}"
\* a docket number whose digit field wraps at four digits
FormatDocket_wraps(n) == "IDF-" \o ZeroPad(Decimal(n % 10000), DocketWidth)

FormatDocket(n) == "IDF-" \o ZeroPad(Decimal(n), DocketWidth)

\* str.lower() on the characters file names are built from
LowerChar(c) ==
    LET upper == <<"A", "B", "C", "D", "E", "F", "G", "H", "I", "J", "K", "L", "M",
                   "N", "O", "P", "Q", "R", "S", "T", "U", "V", "W", "X", "Y", "Z">>
        lower == <<"a", "b", "c", "d", "e", "f", "g", "h", "i", "j", "k", "l", "m",
                   "n", "o", "p", "q", "r", "s", "t", "u", "v", "w", "x", "y", "z">>
    IN  IF \E i \in 1..26 : upper[i] = c
          THEN lower[CHOOSE i \in 1..26 : upper[i] = c]
          ELSE c
Lower(s) == [i \in 1..Len(s) |-> LowerChar(s[i])]

EndsWith(s, suf) ==
    /\ Len(s) >= Len(suf)
    /\ SubSeq(s, Len(s) - Len(suf) + 1, Len(s)) = suf

DotPdf == <<".", "p", "d", "f">>

\* not file.filename or not file.filename.lower().endswith(".pdf")
FilenameRejected(filename) == filename = <<>> \/ ~EndsWith(Lower(filename), DotPdf)

\* the characters str.strip() drops (those of them the texts here contain)
Whitespace == {" ", "\t", "\n", "\r", "\f"}

\* str.strip(): drop leading and trailing whitespace
RECURSIVE LStrip(_)
LStrip(s) == IF s # <<>> /\ Head(s) \in Whitespace THEN LStrip(Tail(s)) ELSE s
RECURSIVE RStrip(_)
RStrip(s) == IF s # <<>> /\ s[Len(s)] \in Whitespace
               THEN RStrip(SubSeq(s, 1, Len(s) - 1)) ELSE s
Strip(s) == RStrip(LStrip(s))

\* the length is taken of the text as extracted, whitespace included
TextInsufficient_untrimmed(text) == text = <<>> \/ Len(text) < MinTextLen

\* not text or len(text.strip()) < 50
TextInsufficient(text) == text = <<>> \/ Len(Strip(text)) < MinTextLen

\* the key leaves out the id of the disclosure
ObjectKey_noId(disclosure_id, filename) == <<"disclosures", filename>>

\* f"disclosures/{disclosure_id}/{filename}"
ObjectKey(disclosure_id, filename) == <<"disclosures", disclosure_id, filename>>

\* ------------------------------------------------------- upload inputs
Rep(c, n) == [i \in 1..n |-> c]

GoodText == Rep(" ", 1) \o Rep("x", MinTextLen) \o Rep(" ", 1)
ShortText == Rep(" ", 2) \o Rep("x", 30) \o Rep(" ", MinTextLen)
\* one character short once the line breaks and tabs around it are dropped
AlmostText == Rep("\n", 1) \o Rep("x", MinTextLen - 1) \o Rep("\t", 2)

John == [name |-> "John Doe", email |-> "john@example.com"]
Jane == [name |-> "Jane Smith", email |-> None]

\* What the structured-extraction collaborator hands back: a failure of the
\* call (API error, timeout, empty or unparsable content) or a parsed object
\* whose fields may be missing (None).
AiOk2 == [fails |-> FALSE, title |-> "FinFET", description |-> "d",
          key_differences |-> "k", inventors |-> <<John, Jane>>]
AiOk0 == [fails |-> FALSE, title |-> "Gate", description |-> "d",
          key_differences |-> "k", inventors |-> <<>>]
AiError == [fails |-> TRUE, title |-> None, description |-> None,
            key_differences |-> None, inventors |-> <<>>]
\* inventors as an array whose elements are an object without a name and a
\* string
AiLoose == [fails |-> FALSE, title |-> "Gate", description |-> "d",
            key_differences |-> "k",
            inventors |-> <<[email |-> "ann@example.com"], [text |-> "Jane Smith"]>>]
AiIncomplete == [fails |-> FALSE, title |-> "FinFET", description |-> None,
                 key_differences |-> "k", inventors |-> <<John>>]

NamePdf == <<"a", ".", "p", "d", "f">>
NamePDF == <<"b", ".", "P", "D", "F">>
NameTxt == <<"a", ".", "t", "x", "t">>

\* The uploads a client may send: file name, whether the bytes parse as a
\* PDF, the text the PDF holds, and the collaborator's answer for that text.
UploadInputs == <<
    [filename |-> NamePdf, parsable |-> TRUE,  text |-> GoodText,  ai |-> AiOk2],
    [filename |-> NamePDF, parsable |-> TRUE,  text |-> GoodText,  ai |-> AiOk0],
    [filename |-> NameTxt, parsable |-> TRUE,  text |-> GoodText,  ai |-> AiOk2],
    [filename |-> <<>>,    parsable |-> TRUE,  text |-> GoodText,  ai |-> AiOk2],
    [filename |-> NamePdf, parsable |-> FALSE, text |-> <<>>,      ai |-> AiOk2],
    [filename |-> NamePdf, parsable |-> TRUE,  text |-> ShortText, ai |-> AiOk2],
    [filename |-> NamePdf, parsable |-> TRUE,  text |-> <<>>,      ai |-> AiOk2],
    [filename |-> NamePdf, parsable |-> TRUE,  text |-> GoodText,  ai |-> AiError],
    [filename |-> NamePdf, parsable |-> TRUE,  text |-> GoodText,  ai |-> AiIncomplete],
    [filename |-> NamePdf, parsable |-> TRUE,  text |-> AlmostText, ai |-> AiError],
    [filename |-> NamePdf, parsable |-> TRUE,  text |-> GoodText,  ai |-> AiLoose] >>

InputIds == 1..Len(UploadInputs)
\* the upload that created the disclosure already in the store
SeedInput == 1

\* extract_disclosure_info: raises on a failed call and on a missing or
\* empty required field, otherwise returns the parsed object.
RequiredFields == <<"title", "description", "key_differences">>
\* whatever the collaborator hands back is taken as a result
ExtractionRaises_never(ai) == FALSE

ExtractionRaises(ai) ==
    \/ ai.fails
    \/ \E i \in 1..Len(RequiredFields) : ai[RequiredFields[i]] \in {None, ""}

\* the length check on the extracted text is left out
UploadPipeline_noLengthCheck(inp) ==
    IF FilenameRejected(inp.filename) THEN 400
    ELSE IF ~inp.parsable THEN 400
    ELSE IF ExtractionRaises(inp.ai) THEN 500
    ELSE 0

\* upload_disclosure up to the call of get_next_docket_number: the status
\* code the request ends with, or 0 when it goes on to the store.
UploadPipeline(inp) ==
    IF FilenameRejected(inp.filename) THEN 400
    ELSE IF ~inp.parsable THEN 400
    ELSE IF TextInsufficient(inp.text) THEN 400
    ELSE IF ExtractionRaises(inp.ai) THEN 500
    ELSE 0

\* ------------------------------------------------------- update patches
NoPatch == [title |-> None, description |-> None, key_differences |-> None,
            status |-> None, review_notes |-> None]

Patches == { [NoPatch EXCEPT !.status = "reviewed"],
             [NoPatch EXCEPT !.status = "approved"],
             [NoPatch EXCEPT !.status = "pending"],
             [NoPatch EXCEPT !.title = "Updated Title"],
             [NoPatch EXCEPT !.status = "bogus", !.title = "Updated Title"],
             NoPatch }

PatchFields == {"title", "description", "key_differences", "status", "review_notes"}

\* JSON null in a request body
Null == "null"

\* DisclosureUpdate(**body): every field is "str | None = None", so a field
\* left out and a field sent as null both come out as None
DisclosureUpdate(body) ==
    [f \in PatchFields |->
        IF f \notin DOMAIN body THEN None
        ELSE IF body[f] = Null THEN None ELSE body[f]]

\* request bodies with fields left out and fields sent as null
Bodies == { [review_notes |-> "ok"],
            [review_notes |-> Null, title |-> "Updated Title"],
            [status |-> "approved", review_notes |-> Null],
            [title |-> Null, description |-> Null, key_differences |-> Null,
             status |-> Null, review_notes |-> Null],
            <<>> }

\* the SET list holds all five fields
SetFields_all(patch) == PatchFields

\* the SET list update_disclosure builds: the fields that are not None
SetFields(patch) == {f \in PatchFields : patch[f] # None}

\* every patch that carries a status counts as a change
StatusChanged_anyStatus(patch, current_status) == patch.status # None

\* status_changed
StatusChanged(patch, current_status) ==
    patch.status # None /\ patch.status # current_status

\* ------------------------------------------------------------------ state
VARIABLES
    seq,             \* last value handed out by docket_seq
    disclosures,     \* committed disclosures rows: id -> row
    inventors,       \* committed inventors rows, in insertion order
    status_history,  \* committed status_history rows, in insertion order
    bucket,          \* whether the blob store's bucket exists
    objects,         \* blob store: object key -> payload (the upload input)
    pc,              \* where each request stands
    req,             \* each request's arguments and local variables
    tx,              \* each request's open transaction (uncommitted rows)
    resp,            \* HTTP status each request ended with (0: none yet)
    issued,          \* history: every docket number handed out so far
    now,             \* the database clock, as NOW() reads it
    arg,             \* a function called on its own: its name and argument
    ret              \* what that call returned (NoCall: not called yet)

vars == <<seq, disclosures, inventors, status_history, bucket, objects,
          pc, req, tx, resp, issued, now, arg, ret>>

NoTx == [open |-> FALSE, aborted |-> FALSE, start |-> 0,
         disc |-> <<>>, invs |-> <<>>, hist |-> <<>>]

NoReq == [op |-> "none", inp |-> 0, target |-> NoId, patch |-> NoPatch,
          docket_value |-> 0, docket_number |-> "", current_status |-> None,
          status_changed |-> FALSE, row |-> FALSE, pdf_object_key |-> NoKey,
          blob |-> "none", dberr |-> FALSE, appended |-> <<>>,
          disclosure |-> <<>>, inventor_rows |-> <<>>, history_rows |-> <<>>,
          pdf_content |-> 0, search |-> <<>>, status |-> None, rows |-> <<>>,
          raised |-> "", body |-> <<>>]

RowsOf(table, d) == SelectSeq(table, LAMBDA r : r.disclosure_id = d)
InventorsOf(d) == RowsOf(inventors, d)
HistoryOf(d) == RowsOf(status_history, d)
Exists(d) == d \in DOMAIN disclosures

\* an empty store: no sequence value drawn, no row, no bucket
InitFresh ==
    /\ seq = 0
    /\ issued = {}
    /\ disclosures = <<>>
    /\ inventors = <<>>
    /\ status_history = <<>>
    /\ bucket = FALSE
    /\ objects = <<>>

\* the store as one earlier successful upload of UploadInputs[SeedInput]
\* leaves it, with the blob attached
SeedRow(key) ==
    LET inp == UploadInputs[SeedInput] IN
    [ docket_number |-> FormatDocket(1),
      title |-> inp.ai.title,
      description |-> inp.ai.description,
      key_differences |-> inp.ai.key_differences,
      status |-> DefaultStatus,
      review_notes |-> None,
      original_filename |-> inp.filename,
      pdf_object_key |-> key,
      created_at |-> 0,
      updated_at |-> 0 ]

InitSeeded ==
    /\ seq = 1
    /\ issued = {FormatDocket(1)}
    /\ inventors = [i \in 1..Len(UploadInputs[SeedInput].ai.inventors) |->
                      [disclosure_id |-> SeedId,
                       name |-> UploadInputs[SeedInput].ai.inventors[i].name,
                       email |-> UploadInputs[SeedInput].ai.inventors[i].email,
                       created_at |-> 0]]
    /\ status_history = <<[disclosure_id |-> SeedId, status |-> DefaultStatus,
                           changed_at |-> 0]>>
    /\ bucket = TRUE
    /\ LET key == ObjectKey(SeedId, UploadInputs[SeedInput].filename) IN
       /\ objects = [k \in {key} |-> SeedInput]
       /\ disclosures = [d \in {SeedId} |-> SeedRow(key)]

NoCall == [fn |-> "none"]

Init ==
    /\ InitFresh \/ InitSeeded
    /\ pc = [p \in Reqs |-> "idle"]
    /\ req = [p \in Reqs |-> NoReq]
    /\ tx = [p \in Reqs |-> NoTx]
    /\ resp = [p \in Reqs |-> 0]
    /\ now = 0
    /\ arg = NoCall
    /\ ret = NoCall

\* requests are numbered in the order they arrive
MayArrive(p) == pc[p] = "idle" /\ (IF p = 1 THEN TRUE ELSE pc[p - 1] # "idle")

\* a step of a request: the database clock is read, never set
Finish(p, code) ==
    pc' = [pc EXCEPT ![p] = "done"] /\ resp' = [resp EXCEPT ![p] = code]
                                      /\ UNCHANGED <<now, arg, ret>>
Goto(p, label) == pc' = [pc EXCEPT ![p] = label] /\ UNCHANGED <<resp, now, arg, ret>>

Db == <<disclosures, inventors, status_history>>
Blob == <<bucket, objects>>

\* ----------------------------------------------------- schema (relational)
\* status_history.disclosure_id and inventors.disclosure_id reference
\* disclosures(id): an insert for an id with no committed row is refused.
ForeignKeyHolds(d) == Exists(d)

\* DELETE FROM disclosures WHERE id = d, with ON DELETE CASCADE on both
\* child tables
DeleteCascade(d) ==
    /\ disclosures' = [x \in DOMAIN disclosures \ {d} |-> disclosures[x]]
    /\ inventors' = SelectSeq(inventors, LAMBDA r : r.disclosure_id # d)
    /\ status_history' = SelectSeq(status_history, LAMBDA r : r.disclosure_id # d)

\* the sequence is read without being advanced
NextVal_stale(s) == s

\* SELECT nextval('docket_seq')
NextVal(s) == s + 1

\* ------------------------------------------------------------------ upload
\* POST /upload up to the store: file name check, text extraction, length
\* check, structured extraction.
\* what the pipeline makes of each upload input
PipelineResult == [i \in InputIds |-> UploadPipeline(UploadInputs[i])]

\* the input whose inventors are not all objects with a name, and the
\* others
LooseInput == Len(UploadInputs)
CommonInputs == InputIds \ {LooseInput}

\* upload_disclosure with input i, up to the call of get_next_docket_number
UploadArrives(p, i) ==
    /\ MayArrive(p)
    /\ req' = [req EXCEPT ![p] = [NoReq EXCEPT !.op = "upload", !.inp = i]]
    /\ IF PipelineResult[i] = 0
          THEN Goto(p, "up_nextval")
          ELSE Finish(p, PipelineResult[i])
    /\ UNCHANGED <<seq, issued, Db, Blob, tx>>

UploadStart(p) == \E i \in CommonInputs : UploadArrives(p, i)

\* an upload whose extraction lists inventors of any shape
UploadStartLoose(p) == UploadArrives(p, LooseInput)

\* the docket number is derived from the number of stored rows
UploadNextVal_countRows(p) ==
    /\ pc[p] = "up_nextval"
    /\ seq' = seq
    /\ req' = [req EXCEPT ![p].docket_value = Cardinality(DOMAIN disclosures) + 1,
                          ![p].docket_number =
                              FormatDocket(Cardinality(DOMAIN disclosures) + 1)]
    /\ issued' = issued \cup {FormatDocket(Cardinality(DOMAIN disclosures) + 1)}
    /\ Goto(p, "up_insert")
    /\ UNCHANGED <<Db, Blob, tx>>

\* docket_number = await get_next_docket_number()
UploadNextVal(p) ==
    /\ pc[p] = "up_nextval"
    /\ seq' = NextVal(seq)
    /\ req' = [req EXCEPT ![p].docket_value = seq',
                          ![p].docket_number = FormatDocket(seq')]
    /\ issued' = issued \cup {FormatDocket(seq')}
    /\ Goto(p, "up_insert")
    /\ UNCHANGED <<Db, Blob, tx>>

\* the statements run without a transaction: what was inserted stays
AbortUpload_keepsRows(p) ==
    /\ disclosures' = IF tx[p].disc = <<>> THEN disclosures
                      ELSE [x \in DOMAIN disclosures \cup {p} |->
                               IF x = p THEN tx[p].disc[1] ELSE disclosures[x]]
    /\ inventors' = inventors \o tx[p].invs
    /\ status_history' = status_history \o tx[p].hist
    /\ tx' = [tx EXCEPT ![p] = NoTx]
    /\ req' = [req EXCEPT ![p].dberr = TRUE]
    /\ Finish(p, 500)
    /\ UNCHANGED <<seq, issued, Blob>>

\* an exception leaves "async with conn.transaction()": ROLLBACK, HTTP 500
AbortUpload(p) ==
    /\ tx' = [tx EXCEPT ![p] = NoTx]
    /\ req' = [req EXCEPT ![p].dberr = TRUE]
    /\ Finish(p, 500)
    /\ UNCHANGED <<seq, issued, Db, Blob>>

NewDisclosure(p) ==
    LET inp == UploadInputs[req[p].inp] IN
    [ docket_number |-> req[p].docket_number,
      title |-> inp.ai.title,
      description |-> inp.ai.description,
      key_differences |-> inp.ai.key_differences,
      status |-> DefaultStatus,
      review_notes |-> None,
      original_filename |-> inp.filename,
      pdf_object_key |-> NoKey,
      created_at |-> now,
      updated_at |-> now ]

\* BEGIN; INSERT INTO disclosures ... RETURNING ...   (the new row's id is p)
UploadInsertDisclosure(p) ==
    /\ pc[p] = "up_insert"
    /\ \E ok \in BOOLEAN :
          IF ok
            THEN /\ tx' = [tx EXCEPT ![p] = [NoTx EXCEPT !.open = TRUE,
                                                         !.start = now,
                                                         !.disc = <<NewDisclosure(p)>>]]
                 /\ Goto(p, "up_head")
                 /\ UNCHANGED <<seq, issued, Db, Blob, req>>
            ELSE AbortUpload(p)

\* the storage exception is not caught: the request ends with HTTP 500
BlobFailed_propagates(p) ==
    /\ req' = [req EXCEPT ![p].blob = "failed"]
    /\ Finish(p, 500)

\* storage.upload_pdf raised: "except Exception" logs it and goes on
BlobFailed(p) ==
    /\ req' = [req EXCEPT ![p].blob = "failed"]
    /\ Goto(p, "up_rows")

\* ensure_bucket_exists: s3_client.head_bucket
UploadHeadBucket(p) ==
    /\ pc[p] = "up_head"
    /\ \E out \in {"ok", "client_error", "other_error"} :
          /\ out = "ok" => bucket
          /\ CASE out = "ok" -> Goto(p, "up_put") /\ UNCHANGED req
               [] out = "client_error" -> Goto(p, "up_create") /\ UNCHANGED req
               [] OTHER -> BlobFailed(p)
    /\ UNCHANGED <<seq, issued, Db, Blob, tx>>

\* ensure_bucket_exists: s3_client.create_bucket after head_bucket raised
UploadCreateBucket(p) ==
    /\ pc[p] = "up_create"
    /\ \E out \in {"ok", "error"} :
          /\ out = "ok" => ~bucket
          /\ IF out = "ok"
                THEN bucket' = TRUE /\ Goto(p, "up_put") /\ UNCHANGED req
                ELSE UNCHANGED bucket /\ BlobFailed(p)
    /\ UNCHANGED <<seq, issued, Db, objects, tx>>

\* upload_pdf: s3_client.put_object under disclosures/{id}/{filename}, then
\* UPDATE disclosures SET pdf_object_key = $1 WHERE id = $2 in the same try:
\* a failure of the UPDATE is swallowed with the transaction left aborted
UploadPutObject(p) ==
    /\ pc[p] = "up_put"
    /\ LET key == ObjectKey(p, UploadInputs[req[p].inp].filename) IN
       \E out \in {"ok", "key_not_set", "error"} :
          /\ out # "error" => bucket
          /\ CASE out = "ok" ->
                    /\ objects' = [k \in DOMAIN objects \cup {key} |->
                                      IF k = key THEN req[p].inp ELSE objects[k]]
                    /\ req' = [req EXCEPT ![p].pdf_object_key = key, ![p].blob = "ok"]
                    /\ tx' = [tx EXCEPT ![p].disc[1].pdf_object_key = key]
                    /\ Goto(p, "up_rows")
               [] out = "key_not_set" ->
                    /\ objects' = [k \in DOMAIN objects \cup {key} |->
                                      IF k = key THEN req[p].inp ELSE objects[k]]
                    /\ req' = [req EXCEPT ![p].pdf_object_key = key, ![p].blob = "ok",
                                          ![p].dberr = TRUE]
                    /\ tx' = [tx EXCEPT ![p].aborted = TRUE]
                    /\ Goto(p, "up_rows")
               [] OTHER -> UNCHANGED <<objects, tx>> /\ BlobFailed(p)
    /\ UNCHANGED <<seq, issued, Db, bucket>>

Extracted(p) == UploadInputs[req[p].inp].ai.inventors

\* no initial history row is written
InitialHistory_none(p) == <<>>

\* the row of the initial INSERT INTO status_history: disclosure["status"]
InitialHistory(p) ==
    <<[disclosure_id |-> p, status |-> tx[p].disc[1].status, changed_at |-> tx[p].start]>>

\* an element of the array that is a JSON object: it has the method get
IsObject(inv) == "text" \notin DOMAIN inv

\* inv.get("name", "Unknown"), inv.get("email")
InventorValues(inv) ==
    [name |-> IF "name" \in DOMAIN inv THEN inv.name ELSE "Unknown",
     email |-> IF "email" \in DOMAIN inv THEN inv.email ELSE None]

\* for inv in extracted.get("inventors", []): INSERT INTO inventors ...; then
\* INSERT INTO status_history (disclosure_id, status) VALUES ($1, $2).
\* The statements are seen by this transaction only; the first that fails
\* (each one does in an aborted transaction) ends the request.
UploadInsertRows(p) ==
    /\ pc[p] = "up_rows"
    /\ \E ok \in BOOLEAN :
          IF ~ok \/ tx[p].aborted
            THEN AbortUpload(p)
          ELSE IF \A i \in 1..Len(Extracted(p)) : IsObject(Extracted(p)[i])
            THEN /\ tx' = [tx EXCEPT
                             ![p].invs = [i \in 1..Len(Extracted(p)) |->
                                            [disclosure_id |-> p,
                                             name |-> InventorValues(Extracted(p)[i]).name,
                                             email |-> InventorValues(Extracted(p)[i]).email,
                                             created_at |-> tx[p].start]],
                             ![p].hist = InitialHistory(p)]
                 /\ Goto(p, "up_commit")
                 /\ UNCHANGED <<seq, issued, Db, Blob, req>>
            \* inv.get of an element that is no object raises AttributeError
            \* inside the transaction block: ROLLBACK, HTTP 500
            ELSE /\ tx' = [tx EXCEPT ![p] = NoTx]
                 /\ req' = [req EXCEPT ![p].dberr = TRUE,
                                       ![p].raised = "AttributeError"]
                 /\ Finish(p, 500)
                 /\ UNCHANGED <<seq, issued, Db, Blob>>

\* the transaction block is left without an exception: COMMIT, then the
\* response is built from the rows the statements returned
UploadCommit(p) ==
    /\ pc[p] = "up_commit"
    /\ \E ok \in BOOLEAN :
          IF ok
            THEN /\ disclosures' = [x \in DOMAIN disclosures \cup {p} |->
                                       IF x = p THEN tx[p].disc[1] ELSE disclosures[x]]
                 /\ inventors' = inventors \o tx[p].invs
                 /\ status_history' = status_history \o tx[p].hist
                 /\ tx' = [tx EXCEPT ![p] = NoTx]
                 /\ Finish(p, 200)
                 /\ UNCHANGED <<seq, issued, Blob, req>>
            ELSE AbortUpload(p)

\* ------------------------------------------------------------------ update
\* the ids a client may name: of disclosures stored now or earlier, of
\* uploads under way, and one id no row ever had
Targets == {d \in Reqs : req[d].op = "upload" /\ req[d].docket_number # ""}
               \cup {d \in {SeedId} : Exists(d) \/ \E q \in Reqs : req[q].target = d}
               \cup {NoId}

\* a status is stored without being looked up among the valid ones
UpdateRejects_statusUnchecked(found, patch) ==
    IF ~found THEN 404
    ELSE IF SetFields(patch) = {} THEN 400
    ELSE 0

\* a patch that sets no field is let through to the UPDATE
UpdateRejects_emptyAccepted(found, patch) ==
    IF ~found THEN 404
    ELSE IF patch.status # None /\ patch.status \notin ValidStatuses THEN 400
    ELSE 0

\* the patch is validated before the row is looked up
UpdateRejects_validatesFirst(found, patch) ==
    IF patch.status # None /\ patch.status \notin ValidStatuses THEN 400
    ELSE IF SetFields(patch) = {} THEN 400
    ELSE IF ~found THEN 404
    ELSE 0

\* the status code update_disclosure raises after its SELECT, 0 for none:
\* 404 for a missing row, then 400 for a bad status, then 400 for no field
UpdateRejects(found, patch) ==
    IF ~found THEN 404
    ELSE IF patch.status # None /\ patch.status \notin ValidStatuses THEN 400
    ELSE IF SetFields(patch) = {} THEN 400
    ELSE 0

\* PATCH /{id}: SELECT id, status FROM disclosures WHERE id = $1, then the
\* SET list is built from the patch
UpdateSelect(p, patch, body) ==
    /\ MayArrive(p)
    /\ \E d \in Targets :
          LET cur == IF Exists(d) THEN disclosures[d].status ELSE None
              code == UpdateRejects(Exists(d), patch) IN
          /\ req' = [req EXCEPT ![p] =
                       [NoReq EXCEPT !.op = "update", !.target = d, !.patch = patch,
                                     !.body = body,
                                     !.current_status = cur,
                                     !.status_changed =
                                         code = 0 /\ StatusChanged(patch, cur)]]
          /\ IF code = 0 THEN Goto(p, "upd_exec") ELSE Finish(p, code)
    /\ UNCHANGED <<seq, issued, Db, Blob, tx>>

\* an update given by its parsed patch
UpdateStart(p) == \E patch \in Patches : UpdateSelect(p, patch, <<>>)

\* an update given by its request body, which the request keeps
UpdateStartBody(p) == \E body \in Bodies : UpdateSelect(p, DisclosureUpdate(body), body)

\* every column the patch does not carry is set to null
ApplyPatch_resetsAbsent(row, patch) ==
    [f \in DOMAIN row |->
        IF f \in SetFields(patch) THEN patch[f]
        ELSE IF f = "updated_at" THEN now
        ELSE IF f \in PatchFields THEN None
        ELSE row[f]]

\* the SET list ends without "updated_at = NOW()"
ApplyPatch_keepsUpdatedAt(row, patch) ==
    [f \in DOMAIN row |->
        IF f \in SetFields(patch) THEN patch[f] ELSE row[f]]

\* the statement also writes the status, pending when the patch has none
ApplyPatch_writesStatus(row, patch) ==
    [f \in DOMAIN row |->
        IF f \in SetFields(patch) THEN patch[f]
        ELSE IF f = "updated_at" THEN now
        ELSE IF f = "status" THEN DefaultStatus
        ELSE row[f]]

\* the row after UPDATE disclosures SET <fields of the patch>, updated_at = NOW()
ApplyPatch(row, patch) ==
    [f \in DOMAIN row |->
        IF f \in SetFields(patch) THEN patch[f]
        ELSE IF f = "updated_at" THEN now
        ELSE row[f]]

\* return dict(row): row is None when the UPDATE matched no row
UpdateReturn(p, row) == Finish(p, IF row THEN 200 ELSE 500)

\* row = await conn.fetchrow(UPDATE ... RETURNING ...), committed on its own
UpdateExec(p) ==
    /\ pc[p] = "upd_exec"
    /\ LET d == req[p].target IN
       \E ok \in BOOLEAN :
          IF ok
            THEN /\ disclosures' =
                       IF Exists(d)
                         THEN [disclosures EXCEPT ![d] = ApplyPatch(@, req[p].patch)]
                         ELSE disclosures
                 /\ req' = [req EXCEPT ![p].row = Exists(d)]
                 /\ IF req[p].status_changed
                       THEN Goto(p, "upd_hist")
                       ELSE UpdateReturn(p, Exists(d))
            ELSE /\ UNCHANGED disclosures
                 /\ req' = [req EXCEPT ![p].dberr = TRUE]
                 /\ Finish(p, 500)
    /\ UNCHANGED <<seq, issued, inventors, status_history, Blob, tx>>

\* the new entry takes the place of the disclosure's earlier entries
InsertHistory_overwrites(table, row) ==
    Append(SelectSeq(table, LAMBDA r : r.disclosure_id # row.disclosure_id), row)

\* INSERT INTO status_history: one more row, none touched
InsertHistory(table, row) == Append(table, row)

\* if status_changed: INSERT INTO status_history (disclosure_id, status),
\* a statement of its own after the UPDATE
UpdateInsertHistory(p) ==
    /\ pc[p] = "upd_hist"
    /\ LET d == req[p].target IN
       \E ok \in BOOLEAN :
          IF ok /\ ForeignKeyHolds(d)
            THEN /\ status_history' = InsertHistory(status_history,
                        [disclosure_id |-> d, status |-> req[p].patch.status,
                         changed_at |-> now])
                 /\ req' = [req EXCEPT ![p].appended = Append(@, req[p].patch.status)]
                 /\ UpdateReturn(p, req[p].row)
            ELSE /\ UNCHANGED status_history
                 /\ req' = [req EXCEPT ![p].dberr = TRUE]
                 /\ Finish(p, 500)
    /\ UNCHANGED <<seq, issued, disclosures, inventors, Blob, tx>>

\* ------------------------------------------------------------------ delete
\* DELETE /{id}: SELECT pdf_object_key FROM disclosures WHERE id = $1
DeleteStart(p) ==
    /\ MayArrive(p)
    /\ \E d \in Targets :
          /\ req' = [req EXCEPT ![p] =
                       [NoReq EXCEPT !.op = "delete", !.target = d,
                                     !.pdf_object_key =
                                         IF Exists(d) THEN disclosures[d].pdf_object_key
                                         ELSE NoKey]]
          /\ IF Exists(d) THEN Goto(p, "del_exec") ELSE Finish(p, 404)
    /\ UNCHANGED <<seq, issued, Db, Blob, tx>>

\* the blob deletion is requested for every deleted disclosure
BlobWanted_always(pdf_object_key) == TRUE

\* if pdf_object_key:
BlobWanted(pdf_object_key) == pdf_object_key # NoKey

\* the handler answers without having issued the DELETE
DeleteExec_skipsDelete(p) ==
    /\ pc[p] = "del_exec"
    /\ IF BlobWanted(req[p].pdf_object_key)
          THEN Goto(p, "del_blob") ELSE Finish(p, 200)
    /\ UNCHANGED <<seq, issued, Db, Blob, tx, req>>

\* DELETE FROM disclosures WHERE id = $1; then "if pdf_object_key:"
DeleteExec(p) ==
    /\ pc[p] = "del_exec"
    /\ \E ok \in BOOLEAN :
          IF ok
            THEN /\ DeleteCascade(req[p].target)
                 /\ UNCHANGED req
                 /\ IF BlobWanted(req[p].pdf_object_key)
                       THEN Goto(p, "del_blob") ELSE Finish(p, 200)
            ELSE /\ UNCHANGED Db
                 /\ req' = [req EXCEPT ![p].dberr = TRUE]
                 /\ Finish(p, 500)
    /\ UNCHANGED <<seq, issued, Blob, tx>>

\* how storage.delete_pdf ends for an outcome of s3_client.delete_object:
\* "except ClientError" swallows that class only, every other exception
\* leaves delete_pdf
DeletePdf(out) ==
    CASE out = "ok" -> "ok"
      [] out = "client_error" -> "failed"
      [] OTHER -> "raised"

\* storage.delete_pdf(pdf_object_key) inside the handler's try: what
\* delete_pdf raises is caught by "except Exception" and logged
DeleteBlob(p) ==
    /\ pc[p] = "del_blob"
    /\ \E out \in {"ok", "client_error", "other_error"} :
          /\ objects' = IF out = "ok"
                          THEN [k \in DOMAIN objects \ {req[p].pdf_object_key} |-> objects[k]]
                          ELSE objects
          /\ req' = [req EXCEPT ![p].blob = DeletePdf(out)]
    /\ Finish(p, 200)
    /\ UNCHANGED <<seq, issued, Db, bucket, tx>>

\* --------------------------------------------------------------------- get
Perms(n) == {f \in [1..n -> 1..n] : \A i, j \in 1..n : i # j => f[i] # f[j]}

\* the results ORDER BY column may return: the rows in ascending order of
\* the column, rows with equal values in any order
OrderBy(rows, column) ==
    { [i \in 1..Len(rows) |-> rows[f[i]]] :
        f \in {g \in Perms(Len(rows)) :
                 \A i, j \in 1..Len(rows) :
                    i < j => rows[g[i]][column] <= rows[g[j]][column]} }

\* ORDER BY ... DESC
OrderByDesc(rows, column) ==
    { [i \in 1..Len(rows) |-> rows[f[i]]] :
        f \in {g \in Perms(Len(rows)) :
                 \A i, j \in 1..Len(rows) :
                    i < j => rows[g[i]][column] >= rows[g[j]][column]} }

\* GET /{id}: SELECT ... FROM disclosures WHERE id = $1
GetStart(p) ==
    /\ MayArrive(p)
    /\ \E d \in Targets :
          /\ req' = [req EXCEPT ![p] =
                       [NoReq EXCEPT !.op = "get", !.target = d,
                                     !.disclosure =
                                         IF Exists(d) THEN <<disclosures[d]>> ELSE <<>>]]
          /\ IF Exists(d) THEN Goto(p, "get_inv") ELSE Finish(p, 404)
    /\ UNCHANGED <<seq, issued, Db, Blob, tx>>

\* SELECT ... FROM inventors WHERE disclosure_id = $1 ORDER BY created_at
GetInventors(p) ==
    /\ pc[p] = "get_inv"
    /\ \E rows \in OrderBy(InventorsOf(req[p].target), "created_at") :
          req' = [req EXCEPT ![p].inventor_rows = rows]
    /\ Goto(p, "get_hist")
    /\ UNCHANGED <<seq, issued, Db, Blob, tx>>

\* SELECT ... FROM status_history WHERE disclosure_id = $1
\* ORDER BY changed_at DESC; return disclosure
GetHistory(p) ==
    /\ pc[p] = "get_hist"
    /\ \E rows \in OrderByDesc(HistoryOf(req[p].target), "changed_at") :
          req' = [req EXCEPT ![p].history_rows = rows]
    /\ Finish(p, 200)
    /\ UNCHANGED <<seq, issued, Db, Blob, tx>>

\* ---------------------------------------------------------------- download
\* the row is missing, or its key is null: nothing to fetch
PdfAvailable_ignoresKey(found, key) == found

\* "if not row" and "if not row['pdf_object_key']" both passed
PdfAvailable(found, key) == found /\ key # NoKey

\* SELECT original_filename, pdf_object_key FROM disclosures WHERE id = $1
DownloadStart(p) ==
    /\ MayArrive(p)
    /\ \E d \in Targets :
          LET key == IF Exists(d) THEN disclosures[d].pdf_object_key ELSE NoKey
          IN  /\ req' = [req EXCEPT ![p] =
                           [NoReq EXCEPT !.op = "download", !.target = d,
                                         !.row = Exists(d), !.pdf_object_key = key]]
              /\ IF PdfAvailable(Exists(d), key) THEN Goto(p, "dl_fetch")
                                                 ELSE Finish(p, 404)
    /\ UNCHANGED <<seq, issued, Db, Blob, tx>>

\* storage.download_pdf: get_object and the read of its body; out is
\* what the blob store does with the request
DownloadPdf(key, out) ==
    IF out = "ok" /\ key \in DOMAIN objects
      THEN [raised |-> FALSE, content |-> objects[key]]
      ELSE [raised |-> TRUE, content |-> 0]

\* pdf_content = storage.download_pdf(key) inside try / except Exception
DownloadFetch(p) ==
    /\ pc[p] = "dl_fetch"
    /\ \E out \in {"ok", "error"} :
          LET r == DownloadPdf(req[p].pdf_object_key, out)
          IN  IF r.raised
                THEN Finish(p, 500) /\ UNCHANGED req
                ELSE /\ req' = [req EXCEPT ![p].pdf_content = r.content]
                     /\ Finish(p, 200)
    /\ UNCHANGED <<seq, issued, Db, Blob, tx>>

\* -------------------------------------------------------------------- list
\* the characters of the texts stored in title, description and
\* docket_number
RECURSIVE DecimalChars(_)
DecimalChars(n) == IF n < 10 THEN <<DigitChars[n + 1]>>
                   ELSE DecimalChars(n \div 10) \o <<DigitChars[(n % 10) + 1]>>
Chars(text) ==
    CASE text = "FinFET" -> <<"F", "i", "n", "F", "E", "T">>
      [] text = "Gate" -> <<"G", "a", "t", "e">>
      [] text = "Updated Title" ->
             <<"U", "p", "d", "a", "t", "e", "d", " ", "T", "i", "t", "l", "e">>
      [] text = "d" -> <<"d">>
      [] OTHER ->
             LET n == CHOOSE k \in 1..(NumReqs + 1) : FormatDocket(k) = text
                 digits == DecimalChars(n)
             IN  <<"I", "D", "F", "-">>
                     \o [i \in 1..(DocketWidth - Len(digits)) |-> "0"] \o digits

\* text LIKE pattern: % stands for any run of characters, _ for any one
\* character, a backslash takes the next character literally
RECURSIVE Like(_, _)
Like(text, pattern) ==
    IF pattern = <<>> THEN text = <<>>
    ELSE IF Head(pattern) = "%"
      THEN IF Like(text, Tail(pattern)) THEN TRUE
           ELSE IF text = <<>> THEN FALSE ELSE Like(Tail(text), pattern)
    ELSE IF text = <<>> THEN FALSE
    ELSE IF Head(pattern) = "_" THEN Like(Tail(text), Tail(pattern))
    ELSE IF Head(pattern) = "\\" /\ Len(pattern) > 1
      THEN IF Head(text) = pattern[2]
             THEN Like(Tail(text), Tail(Tail(pattern))) ELSE FALSE
    ELSE IF Head(text) = Head(pattern)
      THEN Like(Tail(text), Tail(pattern)) ELSE FALSE

\* text ILIKE pattern
ILike(text, pattern) == Like(Lower(text), Lower(pattern))

\* the search terms and status values a client sends; the empty term
\* stands for the parameter left out as well ("if search" fails for both)
SearchTerms == { <<>>, <<"f", "i", "n", "f", "e", "t">>, <<"D", "f", "-">>,
                 <<"z">>, <<"_">>, <<"%">> }
StatusFilters == {None, "", "pending", "approved"}

\* the WHERE clause list_disclosures builds, for one row
ListWhere(row, search, status) ==
    /\ search # <<>> =>
          LET param == <<"%">> \o search \o <<"%">>
          IN  \/ ILike(Chars(row.title), param)
              \/ ILike(Chars(row.description), param)
              \/ ILike(Chars(row.docket_number), param)
    /\ status \notin {None, ""} => row.status = status

\* the rows of disclosures, each with its id, in some order of the table
RECURSIVE TableScan(_)
TableScan(ids) ==
    IF ids = {} THEN <<>>
    ELSE LET d == CHOOSE x \in ids : TRUE
         IN  <<[id |-> d] @@ disclosures[d]>> \o TableScan(ids \ {d})

\* GET "": one SELECT ... WHERE ... ORDER BY created_at DESC
ListDisclosures(p) ==
    /\ MayArrive(p)
    /\ \E search \in SearchTerms, status \in StatusFilters :
          \E rows \in OrderByDesc(
                         SelectSeq(TableScan(DOMAIN disclosures),
                                   LAMBDA row : ListWhere(row, search, status)),
                         "created_at") :
             req' = [req EXCEPT ![p] = [NoReq EXCEPT !.op = "list", !.search = search,
                                                     !.status = status, !.rows = rows]]
    /\ Finish(p, 200)
    /\ UNCHANGED <<seq, issued, Db, Blob, tx>>

\* ------------------------------------------------------------------- clock
\* time passes between two statements
Tick ==
    /\ now < MaxTime
    /\ now' = now + 1
    /\ UNCHANGED <<seq, issued, Db, Blob, pc, req, tx, resp, arg, ret>>

\* ----------------------------------------------------------- specification
Next ==
    \E p \in Reqs :
        \/ UploadStart(p)
        \/ UploadNextVal(p)
        \/ UploadInsertDisclosure(p)
        \/ UploadHeadBucket(p)
        \/ UploadCreateBucket(p)
        \/ UploadPutObject(p)
        \/ UploadInsertRows(p)
        \/ UploadCommit(p)
        \/ UpdateStart(p)
        \/ UpdateExec(p)
        \/ UpdateInsertHistory(p)
        \/ DeleteStart(p)
        \/ DeleteExec(p)
        \/ DeleteBlob(p)
        \/ GetStart(p)
        \/ GetInventors(p)
        \/ GetHistory(p)

Spec == Init /\ [][Next]_vars

\* requests on a store that holds one disclosure, with the clock running
InitStored == Init /\ Exists(SeedId)

NextStored ==
    \/ Tick
    \/ \E p \in Reqs :
          \/ GetStart(p)
          \/ GetInventors(p)
          \/ GetHistory(p)
          \/ UpdateStart(p)
          \/ UpdateExec(p)
          \/ UpdateInsertHistory(p)
          \/ DeleteStart(p)
          \/ DeleteExec(p)
          \/ DeleteBlob(p)

SpecStored == InitStored /\ [][NextStored]_vars

\* uploads alone, with inventors of any shape among the inputs
NextUpload ==
    \E p \in Reqs :
        \/ UploadStart(p)
        \/ UploadStartLoose(p)
        \/ UploadNextVal(p)
        \/ UploadInsertDisclosure(p)
        \/ UploadHeadBucket(p)
        \/ UploadCreateBucket(p)
        \/ UploadPutObject(p)
        \/ UploadInsertRows(p)
        \/ UploadCommit(p)

SpecUpload == Init /\ [][NextUpload]_vars

\* updates alone, given by their request bodies
NextPatch ==
    \E p \in Reqs :
        \/ UpdateStartBody(p)
        \/ UpdateExec(p)
        \/ UpdateInsertHistory(p)

SpecPatch == InitStored /\ [][NextPatch]_vars

\* the blob store and its users: uploads write objects, deletes remove
\* them, downloads read them
NextBlob ==
    \E p \in Reqs :
        \/ UploadStart(p)
        \/ UploadNextVal(p)
        \/ UploadInsertDisclosure(p)
        \/ UploadHeadBucket(p)
        \/ UploadCreateBucket(p)
        \/ UploadPutObject(p)
        \/ UploadInsertRows(p)
        \/ UploadCommit(p)
        \/ DeleteStart(p)
        \/ DeleteExec(p)
        \/ DeleteBlob(p)
        \/ DownloadStart(p)
        \/ DownloadFetch(p)

SpecBlob == Init /\ [][NextBlob]_vars

\* the table and its readers: uploads add rows, updates change their
\* title and status, lists select from them
NextList ==
    \/ Tick
    \/ \E p \in Reqs :
          \/ UploadStart(p)
          \/ UploadNextVal(p)
          \/ UploadInsertDisclosure(p)
          \/ UploadHeadBucket(p)
          \/ UploadCreateBucket(p)
          \/ UploadPutObject(p)
          \/ UploadInsertRows(p)
          \/ UploadCommit(p)
          \/ UpdateStart(p)
          \/ UpdateExec(p)
          \/ UpdateInsertHistory(p)
          \/ ListDisclosures(p)

SpecList == Init /\ [][NextList]_vars

\* ------------------------------------------------------------------ claims
Uploads == {p \in Reqs : req[p].op = "upload"}
Updates == {p \in Reqs : req[p].op = "update"}
Deletes == {p \in Reqs : req[p].op = "delete"}
\* requests that have drawn a docket number
Drawn == {p \in Uploads : req[p].docket_number # ""}

Statuses(rows) == [i \in 1..Len(rows) |-> rows[i].status]
People(rows) == [i \in 1..Len(rows) |-> [name |-> rows[i].name, email |-> rows[i].email]]

\* the inventors the extraction handed over for disclosure d
ExtractedFor(d) ==
    IF d = SeedId THEN UploadInputs[SeedInput].ai.inventors ELSE Extracted(d)

\* a delete of d has executed its DELETE statement
DeletedBy(q, d) ==
    /\ q \in Deletes /\ req[q].target = d
    /\ pc[q] = "del_blob" \/ (pc[q] = "done" /\ resp[q] = 200)

\* C1: under every interleaving of uploads no two calls of
\* get_next_docket_number observe the same counter value, and no two
\* persisted disclosures have the same docket_number.
C1_DocketsUnique ==
    /\ \A p, q \in Drawn : p # q => req[p].docket_value # req[q].docket_value
    /\ \A d, e \in DOMAIN disclosures :
          d # e => disclosures[d].docket_number # disclosures[e].docket_number

\* two uploads in flight at once: q drew its number first, p committed first
C1_Witness ==
    \E p, q \in Drawn :
        /\ Exists(p) /\ pc[q] = "up_commit"
        /\ req[q].docket_value < req[p].docket_value

\* C2: a disclosure row exists if and only if its extracted inventor rows and
\* its initial history row exist, and an upload that failed at a statement of
\* the creation transaction leaves no disclosure, inventor or history row.
C2_CreateAtomic ==
    \A d \in Ids :
        /\ Exists(d) => /\ d \in Uploads \cup {SeedId}
                        /\ People(InventorsOf(d)) = ExtractedFor(d)
                        /\ HistoryOf(d) # <<>>
                        /\ HistoryOf(d)[1].status = DefaultStatus
        /\ ~Exists(d) => InventorsOf(d) = <<>> /\ HistoryOf(d) = <<>>
        /\ (d \in Uploads /\ req[d].dberr) => ~Exists(d)

\* an upload rolled back after its statements had started, next to a stored
\* disclosure that has both its inventors
C2_Witness ==
    \E p, q \in Drawn :
        /\ req[p].dberr /\ pc[p] = "done" /\ resp[p] = 500
        /\ Len(Extracted(p)) = 2 /\ req[p].blob = "ok"
        /\ Exists(q) /\ Len(InventorsOf(q)) = 2

\* C3: no state in which an update has changed a disclosure's stored status
\* and the history entry for that change is absent, also after a failure
\* between the UPDATE and the INSERT.
C3_StatusChangeRecorded ==
    \A p \in Updates :
        (/\ pc[p] = "done"
         /\ req[p].status_changed
         /\ req[p].row
         /\ Exists(req[p].target))
        => req[p].appended # <<>>

\* C4: an accepted update on a disclosure whose stored status is A appends
\* exactly one history entry with status B when its patch carries B # A, and
\* leaves the history as it was when the patch carries A or no status;
\* earlier entries are never touched.
C4_Counts ==
    \A p \in Updates :
        (pc[p] = "done" /\ resp[p] = 200) =>
            req[p].appended =
                IF /\ req[p].patch.status # None
                   /\ req[p].patch.status # req[p].current_status
                  THEN <<req[p].patch.status>>
                  ELSE <<>>

C4_Step ==
    \A p \in Reqs :
        /\ (pc[p] = "idle" /\ req'[p].op = "update" /\ Exists(req'[p].target))
              => req'[p].current_status = disclosures[req'[p].target].status
        /\ (pc[p] \in {"upd_exec", "upd_hist"} /\ pc'[p] # pc[p])
              => /\ status_history' =
                       status_history \o
                         [i \in 1..(Len(req'[p].appended) - Len(req[p].appended)) |->
                            [disclosure_id |-> req[p].target,
                             status |-> req'[p].appended[Len(req[p].appended) + i],
                             changed_at |-> now]]
                 /\ inventors' = inventors

C4_HistoryPerUpdate == []C4_Counts /\ [][C4_Step]_vars

\* one accepted update that changed the status and one that carried the
\* stored status again
C4_Witness ==
    \E p, q \in Updates :
        /\ pc[p] = "done" /\ resp[p] = 200 /\ req[p].appended # <<>>
        /\ pc[q] = "done" /\ resp[q] = 200 /\ req[q].appended = <<>>
        /\ req[q].patch.status = req[q].current_status

\* C5: once no update of a disclosure is in flight, its most recently
\* appended history entry carries the stored status (here even when no
\* statement of any request failed).
C5_LastEntryIsStored ==
    \A d \in DOMAIN disclosures :
        (/\ \A q \in Updates : req[q].target = d => pc[q] = "done"
         /\ \A q \in Reqs : ~req[q].dberr)
        => HistoryOf(d)[Len(HistoryOf(d))].status = disclosures[d].status

\* the upload inputs that fail before the store
PreStoreFailure(inp) ==
    \/ inp.filename = <<>>
    \/ ~EndsWith(Lower(inp.filename), DotPdf)
    \/ ~inp.parsable
    \/ Len(Strip(inp.text)) < MinTextLen
    \/ inp.ai.fails
    \/ inp.ai.title \in {None, ""}
    \/ inp.ai.description \in {None, ""}
    \/ inp.ai.key_differences \in {None, ""}

\* the upload inputs that fail before the store
PreStoreFailures == [i \in InputIds |-> PreStoreFailure(UploadInputs[i])]

\* C6: an upload that fails before the store (file name, unreadable document,
\* insufficient text, failed, malformed or incomplete extraction) never starts
\* the creation transaction and creates no row.
C6_NoRowOnPipelineFailure ==
    \A p \in Uploads :
        PreStoreFailures[req[p].inp] =>
            /\ pc[p] = "done" /\ resp[p] \in {400, 500}
            /\ ~tx[p].open
            /\ ~Exists(p) /\ InventorsOf(p) = <<>> /\ HistoryOf(p) = <<>>

\* an upload rejected for its short text and one rejected for a failed
\* extraction
C6_Witness ==
    \E p, q \in Uploads :
        /\ UploadInputs[req[p].inp].text = ShortText /\ resp[p] = 400
        /\ UploadInputs[req[q].inp].ai.fails /\ resp[q] = 500

\* C7: the blob attach of an upload is never executed while the creation
\* transaction is still open.
C7_AttachAfterCommit ==
    \A p \in Uploads :
        (pc[p] \in {"up_create", "up_put"} \/ req[p].blob # "none")
        => ~tx[p].open

\* C8: a failed blob write (bucket check, bucket creation or put) does not
\* fail the upload: it is reported successful, the disclosure is persisted
\* with its inventors and initial history entry, and pdf_object_key is null.
C8_BlobFailureTolerated ==
    \A p \in Uploads :
        (pc[p] = "done" /\ req[p].blob = "failed" /\ ~req[p].dberr) =>
            /\ resp[p] = 200
            /\ Exists(p) \/ \E q \in Reqs : DeletedBy(q, p)
            /\ Exists(p) => /\ disclosures[p].pdf_object_key = NoKey
                            /\ People(InventorsOf(p)) = Extracted(p)
                            /\ HistoryOf(p)[1].status = DefaultStatus

C8_Witness ==
    \E p \in Uploads :
        /\ pc[p] = "done" /\ req[p].blob = "failed" /\ resp[p] = 200
        /\ Exists(p) /\ disclosures[p].pdf_object_key = NoKey
        /\ Len(InventorsOf(p)) = 2

\* C9: immediately after a successful upload the created disclosure has
\* status pending and exactly one history entry, whose status is pending.
C9_Step ==
    \A p \in Reqs :
        (pc[p] = "up_commit" /\ resp'[p] = 200) =>
            /\ p \in DOMAIN disclosures'
            /\ disclosures'[p].status = "pending"
            /\ Statuses(RowsOf(status_history', p)) = <<"pending">>

C9_InitialHistory == [][C9_Step]_vars

C9_Witness ==
    \E p \in Uploads :
        /\ pc[p] = "done" /\ resp[p] = 200 /\ Exists(p)
        /\ Statuses(HistoryOf(p)) = <<"pending">>

\* C10: the docket counter only increases and a number once issued is never
\* issued again, whether its disclosure was deleted or its creation failed.
C10_Step ==
    /\ seq' >= seq
    /\ \A p \in Reqs :
          req'[p].docket_number # req[p].docket_number =>
              /\ req'[p].docket_number \notin issued
              /\ \A d \in DOMAIN disclosures :
                    disclosures[d].docket_number # req'[p].docket_number

C10_NeverReused == [][C10_Step]_vars

\* a later disclosure stored after an earlier number was deleted with its
\* disclosure
C10_Witness ==
    \E q \in Drawn, r \in Reqs :
        /\ DeletedBy(r, SeedId) /\ ~Exists(SeedId) /\ pc[r] = "done"
        /\ FormatDocket(1) \in issued
        /\ Exists(q) /\ req[q].docket_value > 1

\* an update request arrives (its SELECT and the building of the SET list)
UpdateArrives(p) == pc[p] = "idle" /\ req'[p].op = "update"

\* C11: an update on a stored disclosure whose patch carries a status outside
\* pending, reviewed, approved, rejected ends with 400 at once and changes no
\* row (no column, updated_at included, no history entry), also when the
\* patch carries valid other fields.
C11_Step ==
    \A p \in Reqs :
        (/\ UpdateArrives(p)
         /\ Exists(req'[p].target)
         /\ req'[p].patch.status \notin
                {None, "pending", "reviewed", "approved", "rejected"})
        => /\ pc'[p] = "done" /\ resp'[p] = 400
           /\ disclosures' = disclosures
           /\ inventors' = inventors
           /\ status_history' = status_history

C11_InvalidStatusRejected == [][C11_Step]_vars

\* a patch with status bogus and a valid title was rejected at a time later
\* than the row's updated_at, and the row still has its title
C11_Witness ==
    \E p \in Updates :
        /\ pc[p] = "done" /\ resp[p] = 400
        /\ req[p].patch.status = "bogus" /\ req[p].patch.title # None
        /\ Exists(req[p].target)
        /\ disclosures[req[p].target].title # req[p].patch.title
        /\ disclosures[req[p].target].updated_at < now

\* C12: an update on a stored disclosure whose patch sets none of the five
\* fields ends with 400 at once and leaves the row, updated_at included, and
\* the history as they were.
C12_Step ==
    \A p \in Reqs :
        (/\ UpdateArrives(p)
         /\ Exists(req'[p].target)
         /\ \A f \in {"title", "description", "key_differences", "status",
                       "review_notes"} : req'[p].patch[f] = None)
        => /\ pc'[p] = "done" /\ resp'[p] = 400
           /\ disclosures' = disclosures
           /\ inventors' = inventors
           /\ status_history' = status_history

C12_EmptyPatchRejected == [][C12_Step]_vars

C12_Witness ==
    \E p \in Updates :
        /\ pc[p] = "done" /\ resp[p] = 400 /\ req[p].patch = NoPatch
        /\ Exists(req[p].target)
        /\ disclosures[req[p].target].updated_at < now

\* a step of an update request after its arrival
UpdateActs(p) == req[p].op = "update" /\ pc'[p] # pc[p]

\* C13: an accepted update changes, of all disclosures and inventors, only
\* the columns of its target that its patch carries, and updated_at: absent
\* fields, docket_number, original_filename, pdf_object_key and created_at of
\* the target, every other disclosure and every inventor row stay.
C13_Step ==
    \A p \in Reqs :
        (UpdateArrives(p) \/ UpdateActs(p)) =>
            /\ inventors' = inventors
            /\ DOMAIN disclosures' = DOMAIN disclosures
            /\ \A e \in DOMAIN disclosures :
                  \A f \in DOMAIN disclosures[e] :
                      disclosures'[e][f] # disclosures[e][f] =>
                          /\ e = req[p].target
                          /\ pc[p] = "upd_exec"
                          /\ \/ f = "updated_at"
                             \/ /\ f \in {"title", "description", "key_differences",
                                          "status", "review_notes"}
                                /\ req[p].patch[f] # None
                                /\ disclosures'[e][f] = req[p].patch[f]

C13_OnlyPatchedColumns == [][C13_Step]_vars

\* a title-only patch was applied to one of two stored disclosures, whose
\* other columns still hold what the upload stored
C13_Witness ==
    \E p \in Updates, e \in DOMAIN disclosures :
        /\ pc[p] = "done" /\ resp[p] = 200 /\ Exists(req[p].target)
        /\ e # req[p].target
        /\ req[p].patch.title # None /\ req[p].patch.status = None
        /\ disclosures[req[p].target].title = req[p].patch.title
        /\ disclosures[req[p].target].status = DefaultStatus
        /\ disclosures[req[p].target].description # None

\* C14: the status of every disclosure and of every history entry is one of
\* pending, reviewed, approved, rejected in every reachable state, and a row
\* being created carries pending.
C14_StatusValid ==
    /\ \A d \in DOMAIN disclosures :
          disclosures[d].status \in {"pending", "reviewed", "approved", "rejected"}
    /\ \A i \in 1..Len(status_history) :
          status_history[i].status \in {"pending", "reviewed", "approved", "rejected"}
    /\ \A p \in Reqs :
          tx[p].disc # <<>> => tx[p].disc[1].status = "pending"

\* a disclosure moved to approved, and a patch with another value refused
C14_Witness ==
    \E p, q \in Updates :
        /\ pc[p] = "done" /\ resp[p] = 200 /\ Exists(req[p].target)
        /\ disclosures[req[p].target].status = "approved"
        /\ Statuses(HistoryOf(req[p].target)) = <<"pending", "approved">>
        /\ pc[q] = "done" /\ resp[q] = 400 /\ req[q].patch.status = "bogus"
        /\ req[q].target = req[p].target

\* a request arrives (the first statement of its handler)
Arrives(p) == pc[p] = "idle" /\ pc'[p] # "idle"

\* C15: get, update and delete on an id with no disclosure row end with 404
\* at once, whatever the patch, and change nothing: no row and no object is
\* created, modified or deleted and the blob store is not called.
C15_Step ==
    \A p \in Reqs :
        (/\ Arrives(p)
         /\ req'[p].op \in {"get", "update", "delete"}
         /\ req'[p].target \notin DOMAIN disclosures)
        => /\ pc'[p] = "done" /\ resp'[p] = 404
           /\ disclosures' = disclosures
           /\ inventors' = inventors
           /\ status_history' = status_history
           /\ bucket' = bucket /\ objects' = objects
           /\ req'[p].blob = "none"

C15_NotFound == [][C15_Step]_vars

\* an update with an invalid status and a delete, both on an id no row has
C15_Witness ==
    \E p \in Updates, q \in Deletes :
        /\ pc[p] = "done" /\ resp[p] = 404 /\ req[p].patch.status = "bogus"
        /\ pc[q] = "done" /\ resp[q] = 404 /\ req[q].blob = "none"
        /\ ~Exists(req[p].target) /\ ~Exists(req[q].target)

\* C16: the DELETE of a successful delete of d removes d's disclosure row
\* together with all its inventor and history rows and leaves every other
\* disclosure with its inventors and history as it was; no inventor or history
\* row of a missing disclosure ever exists, and every get, update or delete
\* on d that arrives afterwards ends with 404.
C16_Gone ==
    \A d \in Ids : ~Exists(d) => InventorsOf(d) = <<>> /\ HistoryOf(d) = <<>>

C16_Step ==
    \A p \in Reqs :
        /\ (req[p].op = "delete" /\ pc[p] = "del_exec" /\ pc'[p] # pc[p]
                /\ resp'[p] # 500)
           => /\ req[p].target \notin DOMAIN disclosures'
              /\ RowsOf(inventors', req[p].target) = <<>>
              /\ RowsOf(status_history', req[p].target) = <<>>
              /\ \A e \in DOMAIN disclosures \ {req[p].target} :
                    /\ e \in DOMAIN disclosures'
                    /\ disclosures'[e] = disclosures[e]
                    /\ RowsOf(inventors', e) = InventorsOf(e)
                    /\ RowsOf(status_history', e) = HistoryOf(e)
        /\ (/\ Arrives(p)
            /\ req'[p].op \in {"get", "update", "delete"}
            /\ \E q \in Reqs : DeletedBy(q, req'[p].target))
           => pc'[p] = "done" /\ resp'[p] = 404

C16_DeleteRemoves == []C16_Gone /\ [][C16_Step]_vars

\* a disclosure stored with two inventors was deleted, and a get on its id
\* that arrived afterwards was answered 404
C16_Witness ==
    \E q \in Deletes, p \in Reqs :
        /\ pc[q] = "done" /\ resp[q] = 200 /\ req[q].target = SeedId
        /\ req[p].op = "get" /\ req[p].target = SeedId /\ resp[p] = 404
        /\ p > q /\ ~Exists(SeedId)
        /\ InventorsOf(SeedId) = <<>> /\ HistoryOf(SeedId) = <<>>

\* C17: when the blob deletion of a delete fails, whatever the failure,
\* storage.delete_pdf swallows it, the rows of the disclosure are removed and
\* the delete answers 200.
C17_DeletePdfNeverRaises ==
    \A p \in Deletes :
        (pc[p] = "done" /\ req[p].blob \in {"failed", "raised"}) =>
            /\ req[p].blob # "raised"
            /\ resp[p] = 200
            /\ ~Exists(req[p].target)
            /\ InventorsOf(req[p].target) = <<>>
            /\ HistoryOf(req[p].target) = <<>>

\* C18: a delete calls the blob store only after its DELETE has been
\* executed and only when the pdf_object_key its SELECT read was not null;
\* for a null key no blob-store call is made.
C18_NoCallForNullKey ==
    \A p \in Deletes :
        req[p].pdf_object_key = NoKey => pc[p] # "del_blob" /\ req[p].blob = "none"

C18_Step ==
    \A p \in Reqs :
        /\ (Arrives(p) /\ req'[p].op = "delete" /\ Exists(req'[p].target))
              => req'[p].pdf_object_key = disclosures[req'[p].target].pdf_object_key
        /\ (req[p].op = "delete" /\ pc'[p] # pc[p]) =>
              /\ pc'[p] = "del_blob" =>
                    /\ pc[p] = "del_exec"
                    /\ req[p].target \notin DOMAIN disclosures'
                    /\ req[p].pdf_object_key # NoKey
              /\ (req'[p].blob # req[p].blob \/ objects' # objects) =>
                    /\ pc[p] = "del_blob"
                    /\ req[p].target \notin DOMAIN disclosures
                    /\ req[p].pdf_object_key # NoKey

C18_BlobAfterRowDelete == []C18_NoCallForNullKey /\ [][C18_Step]_vars

\* the stored object of a deleted disclosure was removed after its row
C18_Witness ==
    \E p \in Deletes :
        /\ pc[p] = "done" /\ resp[p] = 200 /\ req[p].blob = "ok"
        /\ req[p].pdf_object_key # NoKey
        /\ req[p].pdf_object_key \notin DOMAIN objects
        /\ ~Exists(req[p].target)

\* s is a prefix of t
Prefix(s, t) == Len(s) <= Len(t) /\ \A i \in 1..Len(s) : t[i] = s[i]

\* C19: every stored disclosure has a history with at least one entry, the
\* oldest with status pending, and from one state to the next the history of
\* a disclosure that stays is extended at its end only: no entry is modified
\* or removed.
C19_NeverEmpty ==
    \A d \in DOMAIN disclosures :
        HistoryOf(d) # <<>> /\ HistoryOf(d)[1].status = "pending"

C19_Step ==
    \A d \in DOMAIN disclosures \cap DOMAIN disclosures' :
        Prefix(HistoryOf(d), RowsOf(status_history', d))

C19_AppendOnly == []C19_NeverEmpty /\ [][C19_Step]_vars

\* a history that grew twice
C19_Witness ==
    /\ Exists(SeedId)
    /\ Len(HistoryOf(SeedId)) = 3
    /\ HistoryOf(SeedId)[1].status = "pending"
    /\ HistoryOf(SeedId)[3].status = disclosures[SeedId].status

\* C20: the UPDATE of an accepted update sets updated_at to the time it runs
\* at, never earlier than the value it replaces and different from it when
\* time has passed since, and leaves created_at alone; an update that is
\* rejected leaves updated_at as it was.
C20_Step ==
    \A p \in Reqs :
        /\ (req[p].op = "update" /\ pc[p] = "upd_exec" /\ pc'[p] # pc[p]
                /\ req'[p].row)
           => LET old == disclosures[req[p].target]
                  new == disclosures'[req[p].target] IN
              /\ new.updated_at = now
              /\ new.updated_at >= old.updated_at
              /\ old.updated_at < now => new.updated_at # old.updated_at
              /\ new.created_at = old.created_at
        /\ (UpdateArrives(p) /\ resp'[p] \in {400, 404})
           => disclosures' = disclosures
        /\ (req[p].op = "update" /\ pc'[p] # pc[p] /\ pc[p] # "upd_exec")
           => disclosures' = disclosures

C20_UpdatedAtAdvances == [][C20_Step]_vars

\* two accepted updates at different times: the row carries the later time
C20_Witness ==
    \E p, q \in Updates :
        /\ p # q
        /\ pc[p] = "done" /\ resp[p] = 200
        /\ pc[q] = "done" /\ resp[q] = 200
        /\ Exists(SeedId) /\ req[p].target = SeedId /\ req[q].target = SeedId
        /\ disclosures[SeedId].updated_at = MaxTime
        /\ disclosures[SeedId].created_at = 0

\* requests of get_disclosure
Gets == {p \in Reqs : req[p].op = "get"}

\* C21: a get that succeeds on an uploaded disclosure returns exactly the
\* inventors the extraction listed, in the extracted order, each with the
\* extracted name and email.
C21_InventorsInOrder ==
    \A p \in Gets :
        (pc[p] = "done" /\ resp[p] = 200) =>
            People(req[p].inventor_rows) = ExtractedFor(req[p].target)

Reverse(s) == [i \in 1..Len(s) |-> s[Len(s) + 1 - i]]

\* C22: the status history a get returns is the complete history of the
\* disclosure in reverse order of appending, the initial pending entry last.
C22_Step ==
    \A p \in Reqs :
        (req[p].op = "get" /\ pc[p] = "get_hist" /\ pc'[p] = "done") =>
            req'[p].history_rows = Reverse(HistoryOf(req[p].target))

C22_HistoryNewestFirst == [][C22_Step]_vars

\* C25: the pdf_object_key of every stored disclosure is null or the key
\* disclosures/{its id}/{its original_filename}; it is set only for an upload
\* whose put_object under that key was accepted and is null for every upload
\* whose blob write failed; no update changes it.
C25_KeyFormat ==
    \A d \in DOMAIN disclosures :
        /\ \/ disclosures[d].pdf_object_key = NoKey
           \/ disclosures[d].pdf_object_key =
                  <<"disclosures", d, disclosures[d].original_filename>>
        /\ d \in Uploads =>
              (disclosures[d].pdf_object_key # NoKey <=> req[d].blob = "ok")

\* an update was applied to a disclosure stored with its key, next to a
\* disclosure whose blob write failed
C25_Witness ==
    \E p \in Updates, d \in Uploads :
        /\ pc[p] = "done" /\ resp[p] = 200 /\ req[p].target = SeedId
        /\ Exists(SeedId) /\ disclosures[SeedId].pdf_object_key # NoKey
        /\ disclosures[SeedId].updated_at = now
        /\ Exists(d) /\ req[d].blob = "failed"
        /\ disclosures[d].pdf_object_key = NoKey

\* C28: an upload whose create_bucket meets a bucket that exists by then
\* (another upload created it in between) goes on to put its object.
C28_Step ==
    \A p \in Reqs :
        (pc[p] = "up_create" /\ bucket /\ pc'[p] # pc[p]) => pc'[p] = "up_put"

C28_CreateBucketIdempotent == [][C28_Step]_vars

(***************************************************************************)
(* Functions called on their own: the argument is drawn at the start, the  *)
(* call applies the function to it.                                         *)
(***************************************************************************)

\* the values nextval can return that the formatter is called with
CounterValues == 1..MaxCounter

(***************************************************************************)
(* extract_disclosure_info, from the content of the collaborator's answer  *)
(* on.  A content is a sequence of lexemes: the characters of a fence, of  *)
(* its tag and of whitespace one by one, a JSON text token by token.       *)
(***************************************************************************)

\* JSON values after json.loads: a string, an array, null or a number
Str(text) == [kind |-> "str", str |-> text, items |-> <<>>]
List(items) == [kind |-> "list", str |-> "", items |-> items]
JsonNull == [kind |-> "null", str |-> "", items |-> <<>>]
Object(fields) == [kind |-> "object", fields |-> fields]
Number == [kind |-> "number", fields |-> <<>>]

\* bool(value) of Python for the values above
Truthy(value) == CASE value.kind = "str" -> value.str # ""
                   [] value.kind = "list" -> value.items # <<>>
                   [] OTHER -> FALSE

\* the JSON texts the collaborator answers with, each with what json.loads
\* makes of it
JsonTexts == <<
  [text  |-> <<"{", "\"title\"", ":", "\"T\"", ",", "\"description\"", ":", "\"D\"", ",",
               "\"key_differences\"", ":", "\"K\"", ",", "\"inventors\"", ":", "[",
               "{", "\"name\"", ":", "\"John Doe\"", ",",
               "\"email\"", ":", "\"john@example.com\"", "}", ",",
               "{", "\"email\"", ":", "null", "}", "]", "}">>,
   value |-> Object([title |-> Str("T"), description |-> Str("D"),
                     key_differences |-> Str("K"),
                     inventors |-> List(<<[name |-> "John Doe",
                                           email |-> "john@example.com"],
                                          [email |-> None]>>)])],
  [text  |-> <<"{", "\"description\"", ":", "\"D\"", ",",
               "\"key_differences\"", ":", "\"K\"", "}">>,
   value |-> Object([description |-> Str("D"), key_differences |-> Str("K")])],
  [text  |-> <<"{", "\"title\"", ":", "\"T\"", ",", "\"description\"", ":", "\"\"", ",",
               "\"key_differences\"", ":", "\"K\"", "}">>,
   value |-> Object([title |-> Str("T"), description |-> Str(""),
                     key_differences |-> Str("K")])],
  [text  |-> <<"{", "\"title\"", ":", "\"T\"", ",", "\"description\"", ":", "\"D\"", ",",
               "\"key_differences\"", ":", "null", "}">>,
   value |-> Object([title |-> Str("T"), description |-> Str("D"),
                     key_differences |-> JsonNull])],
  [text  |-> <<"{", "\"description\"", ":", "\"D\"", "}">>,
   value |-> Object([description |-> Str("D")])],
  [text  |-> <<"{", "\"title\"", ":", "\"T\"", ",", "\"key_differences\"", ":", "[", "]", "}">>,
   value |-> Object([title |-> Str("T"), key_differences |-> List(<<>>)])],
  [text  |-> <<"{", "\"title\"", ":", "\"T\"", ",", "\"description\"", ":", "\"D\"", ",",
               "\"key_differences\"", ":", "[", "\"a\"", ",", "\"b\"", "]", "}">>,
   value |-> Object([title |-> Str("T"), description |-> Str("D"),
                     key_differences |-> List(<<"a", "b">>)])],
  [text  |-> <<"{", "\"title\"", ":", "[", "\"a\"", "]", ",", "\"description\"", ":", "\"D\"", ",",
               "\"key_differences\"", ":", "\"K\"", ",", "\"inventors\"", ":", "\"x\"", "}">>,
   value |-> Object([title |-> List(<<"a">>), description |-> Str("D"),
                     key_differences |-> Str("K"), inventors |-> Str("x")])],
  [text  |-> <<"{", "}">>,
   value |-> Object(<<>>)],
  [text  |-> <<"7">>,
   value |-> Number] >>

\* texts json.loads cannot decode
InvalidTexts == { <<"This", " ", "is", " ", "not", " ", "valid", " ", "JSON">>,
                  <<"{", "\"title\"", ":">>,
                  <<"{", "\"title\"", ":", "\"T\"", "}", " ", "done">> }

\* the character U+0060 of a markdown fence, written in the module's
\* character set, and the fence of three of them
Backquote == "(U+0060)"
Fence == <<Backquote, Backquote, Backquote>>

StartsWith(s, prefix) == Len(s) >= Len(prefix) /\ SubSeq(s, 1, Len(prefix)) = prefix

\* content.strip(), the three fence cuts, and strip() again
CleanContent_keepsTag(content) ==
    LET c1 == Strip(content)
        c3 == IF StartsWith(c1, Fence) THEN SubSeq(c1, 3 + 1, Len(c1)) ELSE c1
        c4 == IF EndsWith(c3, Fence) THEN SubSeq(c3, 1, Len(c3) - 3) ELSE c3
    IN  Strip(c4)

CleanContent(content) ==
    LET c1 == Strip(content)
        c2 == IF StartsWith(c1, Fence \o <<"j", "s", "o", "n">>)
                THEN SubSeq(c1, 7 + 1, Len(c1)) ELSE c1
        c3 == IF StartsWith(c2, Fence) THEN SubSeq(c2, 3 + 1, Len(c2)) ELSE c2
        c4 == IF EndsWith(c3, Fence) THEN SubSeq(c3, 1, Len(c3) - 3) ELSE c3
    IN  Strip(c4)

\* json.loads: the value of a text that is JSON, raised for any other
JsonLoads(text) ==
    IF \E i \in DOMAIN JsonTexts : JsonTexts[i].text = text
      THEN [raised |-> FALSE,
            value |-> JsonTexts[CHOOSE i \in DOMAIN JsonTexts : JsonTexts[i].text = text].value]
      ELSE [raised |-> TRUE, value |-> Number]

\* the loop over the required fields: the first that fails
\* "field not in data or not data[field]", or "" when none does
MissingField_presenceOnly(data) ==
    LET failing == {i \in DOMAIN RequiredFields : RequiredFields[i] \notin DOMAIN data}
    IN  IF failing = {} THEN ""
        ELSE RequiredFields[CHOOSE i \in failing : \A j \in failing : i <= j]

MissingField(data) ==
    LET failing == {i \in DOMAIN RequiredFields :
                       IF RequiredFields[i] \notin DOMAIN data THEN TRUE
                       ELSE ~Truthy(data[RequiredFields[i]])}
    IN  IF failing = {} THEN ""
        ELSE RequiredFields[CHOOSE i \in failing : \A j \in failing : i <= j]

\* the marker the f-string of the join starts with: the source file holds
\* the three characters U+00E2 U+20AC U+00A2 there (the UTF-8 bytes of the
\* bullet U+2022 read as Windows-1252), written in the module's character
\* set
Bullet == "(U+00E2)(U+20AC)(U+00A2)"

\* "\n".join(f"(bullet) {item}" for item in items)
RECURSIVE JoinBullets(_)
JoinBullets(items) ==
    IF items = <<>> THEN ""
    ELSE IF Len(items) = 1 THEN Bullet \o " " \o items[1]
    ELSE Bullet \o " " \o items[1] \o "\n" \o JoinBullets(Tail(items))

\* the two loops after the validation: list-valued text fields become one
\* string, inventors becomes a list
Normalised(data) ==
    [k \in DOMAIN data \cup {"inventors"} |->
        IF k = "inventors"
          THEN IF k \in DOMAIN data
                 THEN IF data[k].kind = "list" THEN data[k] ELSE List(<<>>)
                 ELSE List(<<>>)
          ELSE IF k \in {"title", "description", "key_differences"} /\ data[k].kind = "list"
                 THEN Str(JoinBullets(data[k].items))
                 ELSE data[k]]

Raised(message) == [error |-> message, data |-> <<>>]

\* extract_disclosure_info from "content = response.choices[0].message.content"
ExtractDisclosureInfo(content) ==
    IF content = <<>> THEN Raised("Empty response from AI model")
    ELSE LET loaded == JsonLoads(CleanContent(content))
         IN  IF loaded.raised THEN Raised("Invalid JSON response from AI")
             ELSE IF loaded.value.kind # "object" THEN Raised("TypeError")
             ELSE IF MissingField(loaded.value.fields) # ""
               THEN Raised("Missing required field: " \o MissingField(loaded.value.fields))
             ELSE [error |-> "", data |-> Normalised(loaded.value.fields)]

\* the answers of the collaborator: a text bare or inside a markdown fence,
\* with or without the tag, with whitespace around the parts; an answer with
\* the tag in capitals; an empty answer
FenceTags == { <<>>, <<"j", "s", "o", "n">>, <<"J", "S", "O", "N">> }
Gaps == { <<>>, <<"\n">>, <<" ", "\t">> }
Fenced(text, tag, lead, gap) ==
    lead \o Fence \o tag \o gap \o text \o gap \o Fence \o lead

AnswerTexts == {JsonTexts[i].text : i \in DOMAIN JsonTexts} \cup InvalidTexts

ExtractCalls ==
    {[fn |-> "extract_disclosure_info", text |-> t, fence |-> "none", content |-> t] :
        t \in AnswerTexts \cup {<<>>}}
    \cup {[fn |-> "extract_disclosure_info", text |-> t, fence |-> "bare",
           content |-> lead \o t \o gap] : t \in AnswerTexts, lead \in Gaps, gap \in Gaps}
    \cup {[fn |-> "extract_disclosure_info", text |-> t,
           fence |-> IF tag = <<"J", "S", "O", "N">> THEN "capitals" ELSE "fenced",
           content |-> Fenced(t, tag, lead, gap)] :
             t \in AnswerTexts, tag \in FenceTags, lead \in Gaps, gap \in Gaps}

DocketCalls == {[fn |-> "get_next_docket_number", result |-> n] : n \in CounterValues}

PureCalls == DocketCalls \cup ExtractCalls

InitPure ==
    /\ InitFresh
    /\ pc = [p \in Reqs |-> "idle"]
    /\ req = [p \in Reqs |-> NoReq]
    /\ tx = [p \in Reqs |-> NoTx]
    /\ resp = [p \in Reqs |-> 0]
    /\ now = 0
    /\ arg \in PureCalls
    /\ ret = NoCall

\* get_next_docket_number, from the value nextval returned
CallFormatDocket ==
    /\ arg.fn = "get_next_docket_number" /\ ret = NoCall
    /\ ret' = [fn |-> arg.fn, value |-> FormatDocket(arg.result)]
    /\ UNCHANGED <<seq, issued, Db, Blob, pc, req, tx, resp, now, arg>>

\* extract_disclosure_info, from the content of the answer
CallExtract ==
    /\ arg.fn = "extract_disclosure_info" /\ ret = NoCall
    /\ ret' = [fn |-> arg.fn, value |-> ExtractDisclosureInfo(arg.content)]
    /\ UNCHANGED <<seq, issued, Db, Blob, pc, req, tx, resp, now, arg>>

NextPure == CallFormatDocket \/ CallExtract

SpecPure == InitPure /\ [][NextPure]_vars

\* the zeros Python's 04d puts before a number of fewer than four digits
LeadingZeros(n) == IF n < 10 THEN "000" ELSE IF n < 100 THEN "00"
                   ELSE IF n < 1000 THEN "0" ELSE ""

\* C23: for every counter value n >= 1 the docket number is IDF- followed
\* by the decimal digits of n left-padded with zeros to at least 4 digits:
\* 8 characters for n <= 9999, the whole decimal value from 10000 on.
C23_DocketFormat ==
    (arg.fn = "get_next_docket_number" /\ ret # NoCall) =>
        /\ ret.value = "IDF-" \o LeadingZeros(arg.result) \o ToString(arg.result)
        /\ arg.result <= 9999 => Len(ret.value) = 8
        /\ arg.result >= 10000 => ret.value = "IDF-" \o ToString(arg.result)

\* the counter passed 9999 and the docket number has five digits
C23_Witness ==
    /\ arg.fn = "get_next_docket_number" /\ arg.result = 10000
    /\ ret # NoCall /\ ret.value = "IDF-10000"

\* the length of a text between its first and its last non-whitespace
\* character
TrimmedLen(text) ==
    LET ink == {i \in 1..Len(text) : text[i] \notin {" ", "\t", "\n", "\r", "\f"}}
    IN  IF ink = {} THEN 0
        ELSE (CHOOSE j \in ink : \A i \in ink : i <= j)
             - (CHOOSE j \in ink : \A i \in ink : j <= i) + 1

\* the trimmed length of the text of every upload input
TrimmedLens == [i \in InputIds |-> TrimmedLen(UploadInputs[i].text)]

\* the uploads that reach the length check: the file name was accepted and
\* the document could be read
LengthChecked == [i \in InputIds |-> /\ ~FilenameRejected(UploadInputs[i].filename)
                                      /\ UploadInputs[i].parsable]
ReachLengthCheck == {p \in Uploads : LengthChecked[req[p].inp]}

\* C24: an upload whose extracted text is shorter than 50 characters once
\* trimmed ends with 400 whatever the extraction would have answered and
\* creates no row; with 50 characters or more it goes on to the extraction,
\* whose failure is a 500 and whose success lets the request past 400.
C24_LengthCheck ==
    \A p \in ReachLengthCheck :
        LET inp == UploadInputs[req[p].inp]
        IN  IF TrimmedLens[req[p].inp] < 50
              THEN /\ pc[p] = "done" /\ resp[p] = 400
                   /\ ~Exists(p) /\ ~tx[p].open
              ELSE /\ resp[p] # 400
                   /\ (inp.ai.fails /\ pc[p] = "done") => resp[p] = 500

\* a text of 49 characters between whitespace was rejected although its
\* extraction would have failed, and a text of exactly 50 went through
C24_Witness ==
    \E p, q \in ReachLengthCheck :
        /\ TrimmedLens[req[p].inp] = 49
        /\ Len(UploadInputs[req[p].inp].text) >= 50
        /\ UploadInputs[req[p].inp].ai.fails
        /\ pc[p] = "done" /\ resp[p] = 400
        /\ TrimmedLens[req[q].inp] = 50
        /\ pc[q] = "done" /\ resp[q] = 200 /\ Exists(q)

Downloads == {p \in Reqs : req[p].op = "download"}

\* the payload the upload of disclosure d handed to the blob store
BytesWritten(d) == IF d \in Uploads THEN req[d].inp ELSE SeedInput

\* C26 (the SELECT): a download of an id without a row, or of a row whose
\* key is null, ends with 404; any other goes on to the blob store.
C26_Select ==
    \A p \in Reqs :
        (pc[p] = "idle" /\ pc'[p] # "idle" /\ req'[p].op = "download") =>
            LET d == req'[p].target
            IN  /\ UNCHANGED <<seq, issued, Db, Blob, tx>>
                /\ IF ~Exists(d) \/ disclosures[d].pdf_object_key = NoKey
                      THEN pc'[p] = "done" /\ resp'[p] = 404
                      ELSE pc'[p] # "done"

\* C26 (the fetch): with the key set the answer is 500 when the blob store
\* does not deliver the object and otherwise 200 with the bytes written for
\* the disclosure at its upload.
C26_Fetch ==
    \A p \in Downloads :
        (pc[p] # "idle" /\ pc[p] # "done" /\ pc'[p] # pc[p]) =>
            /\ UNCHANGED <<seq, issued, Db, Blob, tx>>
            /\ pc'[p] = "done" /\ resp'[p] \in {200, 500}
            /\ req[p].pdf_object_key \notin DOMAIN objects => resp'[p] = 500
            /\ resp'[p] = 200 => req'[p].pdf_content = BytesWritten(req[p].target)

\* C26: download answers 404 without a row or without a key, 500 when the
\* object cannot be delivered, otherwise the bytes written at upload, and
\* changes no state.
C26_Download == [][C26_Select /\ C26_Fetch]_vars

\* the file of a disclosure uploaded in this run was downloaded
C26_Witness ==
    \E p \in Downloads :
        /\ pc[p] = "done" /\ resp[p] = 200
        /\ req[p].target \in Uploads
        /\ req[p].pdf_content = req[req[p].target].inp

\* a download found the key set and the object gone
C26_WitnessUnreadable ==
    \E p \in Downloads :
        /\ pc[p] = "done" /\ resp[p] = 500
        /\ req[p].pdf_object_key # NoKey
        /\ req[p].pdf_object_key \notin DOMAIN objects

\* a download of a disclosure stored without its file
C26_WitnessNoBlob ==
    \E p \in Downloads :
        /\ pc[p] = "done" /\ resp[p] = 404
        /\ Exists(req[p].target)
        /\ disclosures[req[p].target].pdf_object_key = NoKey

Lists == {p \in Reqs : req[p].op = "list"}

\* term occurs in text as a substring, letter case aside
Occurs(term, text) ==
    \E i \in 0..(Len(text) - Len(term)) :
        \A j \in 1..Len(term) : LowerChar(text[i + j]) = LowerChar(term[j])

\* the stored disclosures that satisfy every filter given
Matching(search, status) ==
    {d \in DOMAIN disclosures :
        /\ search # <<>> =>
              \/ Occurs(search, Chars(disclosures[d].title))
              \/ Occurs(search, Chars(disclosures[d].description))
              \/ Occurs(search, Chars(disclosures[d].docket_number))
        /\ status \notin {None, ""} => disclosures[d].status = status}

\* C27: list returns exactly the stored disclosures that satisfy every
\* given filter (the term a case-insensitive substring of title, description
\* or docket number; the status equal), each once, newest-created first, and
\* changes no state.
C27_Step ==
    \A p \in Reqs :
        (pc[p] = "idle" /\ pc'[p] = "done" /\ req'[p].op = "list") =>
            LET rows == req'[p].rows
            IN  /\ {rows[i].id : i \in 1..Len(rows)}
                       = Matching(req'[p].search, req'[p].status)
                /\ \A i, j \in 1..Len(rows) :
                       i < j => /\ rows[i].id # rows[j].id
                                /\ rows[i].created_at >= rows[j].created_at
                /\ \A i \in 1..Len(rows) :
                       rows[i] = [id |-> rows[i].id] @@ disclosures[rows[i].id]
                /\ UNCHANGED <<seq, issued, Db, Blob, tx>>

C27_ListMatches == [][C27_Step]_vars

\* the calls of extract_disclosure_info that returned or raised
Extractions == arg.fn = "extract_disclosure_info" /\ ret # NoCall

\* the texts that are JSON objects
JsonObjectTexts ==
    {JsonTexts[i].text : i \in {j \in DOMAIN JsonTexts : JsonTexts[j].value.kind = "object"}}

\* C29: a JSON object text inside a markdown fence (three backquotes, with
\* or without the tag json, three backquotes, whitespace around the parts)
\* gives the result of the text alone; an answer that is not JSON once the
\* fence is cut raises an error and gives no data.
C29_FenceStripped ==
    Extractions =>
        /\ (arg.fence \in {"fenced", "bare"} /\ arg.text \in JsonObjectTexts) =>
              LET alone == ExtractDisclosureInfo(arg.text)
              IN  /\ ret.value.error = alone.error
                  /\ alone.error = "" => ret.value.data = alone.data
        /\ (arg.text \in InvalidTexts \/ arg.fence = "capitals") =>
              ret.value.error # "" /\ ret.value.data = <<>>

\* an object inside a fence tagged json, line breaks around the parts, was
\* parsed to its fields
C29_Witness ==
    /\ Extractions
    /\ arg.content = <<"\n">> \o Fence \o <<"j", "s", "o", "n", "\n">> \o JsonTexts[1].text
                        \o <<"\n">> \o Fence \o <<"\n">>
    /\ ret.value.error = ""
    /\ ret.value.data.title = Str("T")
    /\ ret.value.data.inventors.items # <<>>

\* a value from json.loads that the validation takes as given
Given(data, field) ==
    IF field \notin DOMAIN data THEN FALSE
    ELSE \/ data[field].kind = "str" /\ data[field].str # ""
         \/ data[field].kind = "list" /\ Len(data[field].items) > 0

\* C30: a parsed object gives a result only if title, description and
\* key_differences are all present and non-empty; otherwise the call fails
\* with an error naming the first of the three, in that order, that is
\* absent or empty; every result holds all three as non-empty strings.
C30_RequiredFields ==
    (Extractions /\ arg.fence \in {"none", "bare", "fenced"}
                 /\ arg.text \in JsonObjectTexts) =>
        LET data == (CHOOSE d \in {JsonTexts[i] : i \in DOMAIN JsonTexts} :
                         d.text = arg.text).value.fields
        IN  IF ~Given(data, "title")
              THEN ret.value.error = "Missing required field: title"
            ELSE IF ~Given(data, "description")
              THEN ret.value.error = "Missing required field: description"
            ELSE IF ~Given(data, "key_differences")
              THEN ret.value.error = "Missing required field: key_differences"
            ELSE /\ ret.value.error = ""
                 /\ \A f \in {"title", "description", "key_differences"} :
                       /\ f \in DOMAIN ret.value.data
                       /\ ret.value.data[f].kind = "str"
                       /\ ret.value.data[f].str # ""

\* an object with an empty description and no fault before it was refused
\* by that name
C30_Witness ==
    /\ Extractions
    /\ arg.text = JsonTexts[3].text
    /\ ret.value.error = "Missing required field: description"

\* the bullet character U+2022, written in the module's character set
BulletMarker == "(U+2022)"

\* the parsed object of the text of an extraction call
ParsedFields ==
    (CHOOSE d \in {JsonTexts[i] : i \in DOMAIN JsonTexts} : d.text = arg.text).value.fields

\* C31: in the result of an extraction, a text field given as the list a, b
\* is the string "(bullet) a", newline, "(bullet) b", one given as a list of
\* one element is "(bullet) " and the element, and one given as a string is
\* that string.
C31_BulletJoin ==
    (Extractions /\ arg.fence \in {"none", "bare", "fenced"}
                 /\ arg.text \in JsonObjectTexts /\ ret.value.error = "") =>
        \A f \in {"title", "description", "key_differences"} :
            LET given == ParsedFields[f]
            IN  ret.value.data[f] =
                  IF given.kind = "str" THEN given
                  ELSE IF given.items = <<"a", "b">>
                    THEN Str(BulletMarker \o " a\n" \o BulletMarker \o " b")
                  ELSE Str(BulletMarker \o " " \o given.items[1])

\* the uploads whose extraction was accepted
Accepted == {p \in Uploads : PipelineResult[req[p].inp] = 0}

\* C32: the inventors of an accepted extraction give one row each, in
\* order, with the element's name, or Unknown when it has none, and the
\* element's email or null; no element makes the upload fail.
C32_InventorRows ==
    \A p \in Accepted :
        LET elements == UploadInputs[req[p].inp].ai.inventors
        IN  /\ req[p].raised = ""
            /\ Exists(p) =>
                  People(InventorsOf(p)) =
                      [i \in 1..Len(elements) |->
                          [name |-> IF "name" \in DOMAIN elements[i]
                                      THEN elements[i].name ELSE "Unknown",
                           email |-> IF "email" \in DOMAIN elements[i]
                                       THEN elements[i].email ELSE None]]

\* C33: no two consecutive entries of the status history of a disclosure,
\* in append order, carry the same status.
C33_NoRepeatedStatus ==
    \A d \in Ids :
        \A i \in 1..(Len(HistoryOf(d)) - 1) :
            HistoryOf(d)[i].status # HistoryOf(d)[i + 1].status

\* C34: an update that passed its existence check and finds the disclosure
\* deleted when its UPDATE or its history INSERT runs, no statement failing
\* for another reason, ends with 404, and no row of the disclosure exists
\* afterwards.
C34_Step ==
    \A p \in Reqs :
        (/\ req[p].op = "update" /\ pc[p] \in {"upd_exec", "upd_hist"}
         /\ ~Exists(req[p].target)
         /\ pc'[p] = "done" /\ ~req'[p].dberr) =>
            /\ resp'[p] = 404
            /\ ~Exists(req[p].target)'
            /\ InventorsOf(req[p].target)' = <<>>
            /\ HistoryOf(req[p].target)' = <<>>

C34_DeletedMeansNotFound == [][C34_Step]_vars

\* C35: every object in the blob store belongs to a disclosure whose row was
\* committed or whose upload is still under way; an upload whose creation
\* was rolled back leaves no object behind.
C35_NoOrphanedBlob ==
    \A key \in DOMAIN objects :
        LET d == key[2]
        IN  \/ d = SeedId
            \/ d \in Uploads /\ ~(pc[d] = "done" /\ resp[d] = 500)

\* C36 (a step): the arrival of an upload draws no docket number and ends the
\* request exactly when a step before the store rejects it; the counter moves
\* only by one, for an upload that passed all of them.
C36_Step ==
    /\ \A p \in Reqs :
          (pc[p] = "idle" /\ pc'[p] # "idle" /\ req'[p].op = "upload") =>
              /\ seq' = seq /\ issued' = issued
              /\ PreStoreFailures[req'[p].inp] <=> pc'[p] = "done"
    /\ seq' # seq =>
          /\ seq' = seq + 1
          /\ \E p \in Uploads : /\ pc[p] # "done" /\ pc'[p] # pc[p]
                                /\ ~PreStoreFailures[req[p].inp]
                                /\ req'[p].docket_number = FormatDocket(seq')

\* C36: an upload rejected before the store step leaves the docket counter
\* unchanged; get_next_docket_number runs only for an upload whose
\* extraction succeeded.
C36_CounterUntouched == [][C36_Step]_vars

\* on an empty store the upload after a rejected one was given number 1
C36_Witness ==
    \E p, q \in Uploads :
        /\ p < q /\ pc[p] = "done" /\ PreStoreFailures[req[p].inp]
        /\ UploadInputs[req[p].inp].ai.fails
        /\ req[q].docket_number = "IDF-0001"

\* the fields a request body sends with a value
Sent(body) == {f \in DOMAIN body : body[f] # "null"}

\* C37 (a step): the patch of an arriving update holds a value exactly for the
\* fields its body sends with a value, null counting as not sent; a body that
\* sends no value is refused with 400 on an existing disclosure and changes
\* nothing; no step turns a text column that holds a value into null.
C37_Step ==
    /\ \A p \in Reqs :
          (pc[p] = "idle" /\ pc'[p] # "idle" /\ req'[p].op = "update") =>
              LET body == req'[p].body
              IN  /\ \A f \in PatchFields :
                         req'[p].patch[f] = IF f \in Sent(body) THEN body[f] ELSE "None"
                  /\ (Sent(body) = {} /\ Exists(req'[p].target)) =>
                         /\ pc'[p] = "done" /\ resp'[p] = 400
                         /\ UNCHANGED <<disclosures, inventors, status_history>>
    /\ \A d \in DOMAIN disclosures \cap DOMAIN disclosures' :
          \A f \in {"title", "description", "key_differences", "review_notes"} :
              disclosures[d][f] # "None" => disclosures'[d][f] # "None"

\* C37: a patch field sent as null is treated like an absent field, an
\* all-null patch is rejected as empty, and no update sets a text column that
\* holds a value back to null.
C37_NullIsAbsent == [][C37_Step]_vars

\* review_notes was set by one update and kept by a later accepted update
\* that sent it as null
C37_Witness ==
    \E p, q \in Updates :
        /\ p < q /\ pc[p] = "done" /\ resp[p] = 200 /\ pc[q] = "done" /\ resp[q] = 200
        /\ req[p].target = SeedId /\ req[q].target = SeedId
        /\ req[p].body = [review_notes |-> "ok"]
        /\ req[q].body = [review_notes |-> "null", title |-> "Updated Title"]
        /\ disclosures[SeedId].review_notes = "ok"
        /\ disclosures[SeedId].title = "Updated Title"

\* the updates of disclosure d whose patch carries field f
Patching(d, f) ==
    {p \in Updates : req[p].target = d /\ req[p].patch[f] # "None"}

\* C38: the value an accepted update wrote to a column stays in the row
\* unless another update of the same disclosure carries that column too; so
\* two accepted updates of disjoint fields both show in the row, in every
\* interleaving.
C38_DisjointUpdatesKept ==
    \A d \in DOMAIN disclosures :
        \A f \in PatchFields :
            \A p \in Patching(d, f) :
                (pc[p] = "done" /\ resp[p] = 200 /\ Patching(d, f) = {p}) =>
                    disclosures[d][f] = req[p].patch[f]

\* two accepted updates of one disclosure, one of the title and one of the
\* status, and the row shows both
C38_Witness ==
    \E p, q \in Updates :
        /\ p # q /\ req[p].target = SeedId /\ req[q].target = SeedId
        /\ pc[p] = "done" /\ resp[p] = 200 /\ pc[q] = "done" /\ resp[q] = 200
        /\ req[p].patch.title = "Updated Title" /\ req[p].patch.status = "None"
        /\ req[q].patch.status = "approved" /\ req[q].patch.title = "None"
        /\ req[q].current_status = "pending"
        /\ Exists(SeedId)
        /\ disclosures[SeedId].title = "Updated Title"
        /\ disclosures[SeedId].status = "approved"

====
